---- MODULE Spec2Model ----
(***************************************************************************)
(* Model of the tree_guide library (guide.h): the BFS guide and its        *)
(* chooser, the default guide, the weighted sampler guide, and the driver  *)
(* loop of tester.cpp running the generators test1 and test2.              *)
(*                                                                         *)
(* Tree nodes live in a heap (a sequence of node records indexed by        *)
(* address); NullPtr is the null pointer.  Child index i of the source     *)
(* (0-based) is position i+1 of the Children sequence.  The draws of the   *)
(* pseudo random generator are nondeterministic choices over the support   *)
(* of the distribution that is sampled.  assert() is modelled as enabled:  *)
(* a failing assertion stops the program.                                  *)
(***************************************************************************)
EXTENDS Integers, Sequences, FiniteSets, TLC

\* depth of the generators test1 and test2 (tester.cpp uses 56)
TreeDepth == 3

\* number of traversals the driver makes with a guide that never reports
\* exhaustion (tester.cpp stops after REPS traversals)
MaxRuns == 4

NullPtr == 0

VARIABLES
  guide,          \* which guide the driver uses: "BFS", "Default", "Sampler"
  gen,            \* which generator the driver runs
  pc,             \* "idle": no chooser; "run": generator running; "stopped"
  err,            \* why the program stopped ("none" while it runs)
  \* BFSGuide
  Nodes, TotalNodes, PendingPaths, MaxSavedLevel, Choosing, Started,
  \* BFSChooser
  Current, LastChoice, Level, SavedChoices,
  \* WeightedSamplerGuide (its tree) and WeightedSamplerChooser
  SNodes, Trail,
  \* the generator's control state: the choices it received in this run,
  \* and whether it has made its chooseUnimportant call at this point
  path, didUnimp,
  \* observations
  ret,            \* the last value returned by a chooser operation
  run,            \* number of choosers handed out so far
  last,           \* outcome of the last makeChooser call
  live,           \* number of choosers constructed and not yet destroyed
  taken,          \* the choice sequences of the completed traversals
  target,         \* node popped for the live chooser (NullPtr: bootstrap)
  untakenAtPop,   \* child indices of target that were empty when popped
  drew            \* per choose call of this run: was a random draw used

gvars      == <<guide, gen>>
bfsGuide   == <<Nodes, TotalNodes, PendingPaths, MaxSavedLevel, Choosing, Started>>
bfsChooser == <<Current, LastChoice, Level, SavedChoices>>
sampler    == <<SNodes, Trail>>
genvars    == <<path, didUnimp>>
plan       == <<target, untakenAtPop>>
vars == <<guide, gen, pc, err, Nodes, TotalNodes, PendingPaths, MaxSavedLevel,
          Choosing, Started, Current, LastChoice, Level, SavedChoices,
          SNodes, Trail, path, didUnimp, ret, run, last, live, taken, target, untakenAtPop,
          drew>>

Min(S) == CHOOSE x \in S : \A y \in S : x <= y
Max(S) == CHOOSE x \in S : \A y \in S : x >= y
Front(s) == SubSeq(s, 1, Len(s) - 1)
Back(s) == s[Len(s)]

----------------------------------------------------------------------------
(* The generators.  Call(g, r, p) is the chooser operation the generator   *)
(* g makes in run r after it has received the choices p, or the return.    *)

(* A long argument Choices is the pair hi, n that stands for                *)
(* hi * 2^31 + n with 0 <= n < 2^31; hi = 0 for every arity but one.       *)

Return == [op |-> "return", hi |-> 0, n |-> 0, w |-> <<>>]
DoChoose(n) == [op |-> "choose", hi |-> 0, n |-> n, w |-> <<>>]
DoChooseLong(hi, n) == [op |-> "choose", hi |-> hi, n |-> n, w |-> <<>>]
DoFlip == [op |-> "flip", hi |-> 0, n |-> 2, w |-> <<>>]
DoWeighted(w) == [op |-> "weighted", hi |-> 0, n |-> Len(w), w |-> w]

\* for (i < TreeDepth) if (g.flip()) return i; return TreeDepth
test1(p) ==
  IF Len(p) < TreeDepth /\ (p = <<>> \/ Back(p) = 0) THEN DoFlip ELSE Return

\* test2_helper: one choose(2) per level for TreeDepth levels
test2(p) ==
  IF Len(p) < TreeDepth THEN DoChoose(2) ELSE Return

\* a generator of mixed arities that uses every operation
mixed(p) ==
  CASE p = <<>>     -> DoChoose(3)
    [] p = <<0>>    -> DoChoose(1)
    [] p = <<0, 0>> -> DoWeighted(<<0, 1, 2>>)
    [] p = <<2>>    -> DoWeighted(<<2, 0>>)
    [] OTHER        -> Return

\* the weighted choice scenario, continued below each outcome
weighted(p) ==
  CASE p = <<>>  -> DoWeighted(<<1, 3>>)
    [] p = <<0>> -> DoChoose(2)
    [] p = <<1>> -> DoWeighted(<<2, 1, 1>>)
    [] OTHER     -> Return

\* one choice among 2^31 + 1 values
huge(p) ==
  IF p = <<>> THEN DoChooseLong(1, 1) ELSE Return

\* generators that break the API: the arity at a node changes between runs
unstable(r, p) ==
  IF p = <<>>
  THEN (IF r <= 1 THEN DoChoose(3) ELSE DoWeighted(<<1, 1, 1, 1>>))
  ELSE Return

unstable2(r, p) ==
  CASE p = <<>>   -> (IF r <= 2 THEN DoChoose(2) ELSE DoChoose(3))
    [] Len(p) = 1 -> DoWeighted(<<1, 1>>)
    [] OTHER      -> Return

\* a generator whose runs get shorter: two choices in the first run, one
\* choice in every later run
shrinking(r, p) ==
  IF p = <<>> \/ (r <= 1 /\ Len(p) = 1) THEN DoChoose(2) ELSE Return

Generators ==
  {"test1", "test2", "mixed", "mixedU", "weighted", "none", "huge",
   "unstable", "unstable2", "shrinking"}

Deterministic(g) == g \notin {"unstable", "unstable2", "shrinking"}

Call(g, r, p) ==
  CASE g = "test1"     -> test1(p)
    [] g = "test2"     -> test2(p)
    [] g = "mixed"     -> mixed(p)
    [] g = "mixedU"    -> mixed(p)
    [] g = "weighted"  -> weighted(p)
    [] g = "huge"      -> huge(p)
    [] g = "unstable"  -> unstable(r, p)
    [] g = "unstable2" -> unstable2(r, p)
    [] g = "shrinking" -> shrinking(r, p)
    [] OTHER           -> Return

\* mixedU is mixed with a chooseUnimportant call before every operation
Unimp(g, p) == g = "mixedU"

GenNext ==
  IF Unimp(gen, path) /\ ~didUnimp
  THEN [op |-> "unimportant", hi |-> 0, n |-> 0, w |-> <<>>]
  ELSE Call(gen, run, path)

----------------------------------------------------------------------------
(* PriQ<Node *>: the frontier queue.  Kept as the sequence of its entries  *)
(* in removal order: by level, and within a level in insertion order.      *)

PriQInsert(q, n, l) ==
  LET k == Cardinality({i \in 1..Len(q) : q[i].level <= l})
  IN  SubSeq(q, 1, k) \o <<[node |-> n, level |-> l]>> \o SubSeq(q, k + 1, Len(q))

PriQRemoveHead(q) ==
  IF Len(q) = 0
  THEN [has |-> FALSE, node |-> NullPtr, level |-> 0, rest |-> q]
  ELSE [has |-> TRUE, node |-> q[1].node, level |-> q[1].level, rest |-> Tail(q)]

----------------------------------------------------------------------------
(* BFSGuide                                                                *)

Root == 1

\* make_unique<Node>(): Parent is null, no children
NewNode == [Parent |-> NullPtr, Children |-> <<>>]

Resize(n) == [i \in 1..n |-> NullPtr]

\* BFSGuide::BFSGuide: the root has one child slot
BFSGuideInit ==
  /\ Nodes = <<[Parent |-> NullPtr, Children |-> Resize(1)]>>
  /\ TotalNodes = 0
  /\ PendingPaths = <<>>
  /\ MaxSavedLevel = -1
  /\ Choosing = FALSE
  /\ Started = FALSE

SetChild(heap, n, i, c) ==
  [heap EXCEPT ![n].Children = [@ EXCEPT ![i + 1] = c]]

Stop(reason) ==
  /\ pc' = "stopped"
  /\ err' = reason
  /\ UNCHANGED <<gvars, bfsGuide, bfsChooser, sampler, genvars, plan,
                 ret, run, last, live, taken, drew>>

\* mutant: the guard against a second chooser is missing
NoLiveChooser_Unchecked == TRUE

\* assert(!Choosing)
NoLiveChooser == ~Choosing

\* mutant: an empty queue starts the exploration over
FirstTraversal_Restart == ~Started \/ PendingPaths = <<>>

\* if (!Started): this is the first traversal
FirstTraversal == ~Started

\* mutant: the first slot is saved for every node above the target
ChoiceAbove_First(kids, N2) == 0

\* above the target: the index of the child N2 among kids
ChoiceAbove(kids, N2) ==
  LET I == {i \in 0..(Len(kids) - 1) : kids[i + 1] = N2}
  IN  IF I = {} THEN -1 ELSE Min(I)

\* at the target: every empty slot overwrites Next, so the last one stays
UntakenSlots(kids) == {i \in 0..(Len(kids) - 1) : kids[i + 1] = NullPtr}

\* mutant: the search stops at the first empty slot
ChoiceAtTarget_Lowest(kids) ==
  IF UntakenSlots(kids) = {} THEN -1 ELSE Min(UntakenSlots(kids))

\* Next once the loop over the slots of the target has finished
ChoiceAtTarget(kids) ==
  IF UntakenSlots(kids) = {} THEN -1 ELSE Max(UntakenSlots(kids))

\* mutant: a node with two unexplored branches is not put back
Reinsert_OffByOne(q, N, NumUntaken, SavedLevel) ==
  IF NumUntaken > 2 THEN PriQInsert(q, N, SavedLevel) ELSE q

\* mutant: the node is put back without its level
Reinsert_LevelZero(q, N, NumUntaken, SavedLevel) ==
  IF NumUntaken > 1 THEN PriQInsert(q, N, 0) ELSE q

\* mutant: the popped node always goes back on the queue
Reinsert_Always(q, N, NumUntaken, SavedLevel) == PriQInsert(q, N, SavedLevel)

\* if more than one branch is unexplored the node goes back on the queue
Reinsert(q, N, NumUntaken, SavedLevel) ==
  IF NumUntaken > 1 THEN PriQInsert(q, N, SavedLevel) ELSE q

\* the do-while loop of makeChooser: walk up to the root, saving the
\* decisions that lead back down to the popped node
RECURSIVE WalkUp(_, _, _, _, _)
WalkUp(N, N2, saved, q, SavedLevel) ==
  LET kids == Nodes[N].Children
      NumUntaken == Cardinality(UntakenSlots(kids))
      Next == IF N2 # NullPtr THEN ChoiceAbove(kids, N2) ELSE ChoiceAtTarget(kids)
      q2 == IF N2 # NullPtr THEN q ELSE Reinsert(q, N, NumUntaken, SavedLevel)
      up == Nodes[N].Parent
  IN  IF N2 = NullPtr /\ NumUntaken = 0
        THEN [err |-> "assert NumUntaken > 0", saved |-> saved, q |-> q]
      ELSE IF Next = -1
        THEN [err |-> "assert Next != -1", saved |-> saved, q |-> q2]
      ELSE IF up = Root
        THEN [err |-> "none", saved |-> Append(saved, Next), q |-> q2]
      ELSE IF up = NullPtr
        THEN [err |-> "null dereference", saved |-> saved, q |-> q2]
      ELSE WalkUp(up, N, Append(saved, Next), q2, SavedLevel)

\* BFSChooser::BFSChooser together with the bookkeeping of the driver
NewChooser(saved, tgt) ==
  /\ Current' = Root
  /\ LastChoice' = 0
  /\ Level' = 0
  /\ SavedChoices' = saved
  /\ Choosing' = TRUE
  /\ pc' = "run"
  /\ path' = <<>>
  /\ didUnimp' = FALSE
  /\ drew' = <<>>
  /\ run' = run + 1
  /\ live' = live + 1
  /\ target' = tgt
  /\ untakenAtPop' = IF tgt = NullPtr THEN {} ELSE UntakenSlots(Nodes[tgt].Children)
  /\ UNCHANGED <<gvars, err, Nodes, TotalNodes, sampler, ret, taken>>

BFSMakeChooser ==
  /\ guide = "BFS"
  /\ pc \in {"idle", "run"}
  /\ IF ~NoLiveChooser THEN Stop("assert !Choosing")
     ELSE IF FirstTraversal THEN
       \* case 1: the first traversal is purely random
       /\ Started' = TRUE
       /\ last' = "bootstrap"
       /\ NewChooser(<<>>, NullPtr)
       /\ UNCHANGED <<PendingPaths, MaxSavedLevel>>
     ELSE
       LET h == PriQRemoveHead(PendingPaths) IN
       IF h.has THEN
         \* case 2: the queue has an unexplored decision
         IF ~(h.level >= MaxSavedLevel)
         THEN Stop("assert SavedLevel >= MaxSavedLevel")
         ELSE LET w == WalkUp(h.node, NullPtr, <<>>, h.rest, h.level) IN
              IF w.err # "none" THEN Stop(w.err)
              ELSE /\ MaxSavedLevel' = h.level
                   /\ PendingPaths' = w.q
                   /\ last' = "planned"
                   /\ NewChooser(w.saved, h.node)
                   /\ UNCHANGED Started
       ELSE
         \* case 3: the tree has been completely explored
         /\ last' = "absent"
         /\ UNCHANGED <<gvars, pc, err, bfsGuide, bfsChooser, sampler,
                        genvars, plan, ret, run, live, taken, drew>>

\* mutant: only a smaller arity is detected
ArityChanged_Shrunk(Choices, N) == Choices < Len(Nodes[N].Children)

\* the arity presented differs from the arity of the node reached
ArityChanged(Choices, N) == Choices # Len(Nodes[N].Children)

\* mutant: the queue is keyed by the remaining depth
InsertNew_Remaining(q, N, Choices, Lvl) ==
  IF Choices > 1 THEN PriQInsert(q, N, TreeDepth - Lvl) ELSE q

\* mutant: nodes of two choices are not queued
InsertNew_OffByOne(q, N, Choices, Lvl) ==
  IF Choices > 2 THEN PriQInsert(q, N, Lvl) ELSE q

\* mutant: every new node is queued
InsertNew_Always(q, N, Choices, Lvl) == PriQInsert(q, N, Lvl)

\* if there are other options the new node goes on the queue
InsertNew(q, N, Choices, Lvl) ==
  IF Choices > 1 THEN PriQInsert(q, N, Lvl) ELSE q

\* Choice = SavedChoices.at(NumSavedChoices - 1)
SavedTop(saved) == Back(saved)

\* mutant: the saved choice that was used stays on the stack
PopSaved_Kept(saved) == saved

\* SavedChoices.pop_back()
PopSaved(saved) == Front(saved)

\* Current = N; LastChoice = Choice; Level++; return Choice
Advance(N, Choice, Choices, op, random) ==
  /\ Current' = N
  /\ LastChoice' = Choice
  /\ Level' = Level + 1
  /\ ret' = [op |-> op, hi |-> 0, n |-> Choices, k |-> Choice,
             b |-> (Choice # 0)]
  /\ path' = Append(path, Choice)
  /\ drew' = Append(drew, random)
  /\ didUnimp' = FALSE
  /\ UNCHANGED <<gvars, pc, err, MaxSavedLevel, Choosing, Started, sampler,
                 plan, run, last, live, taken>>

\* BFSChooser::chooseInternal; Rnd is the support of randomChoice()
chooseInternal(Choices, Rnd, op) ==
  LET N == Nodes[Current].Children[LastChoice + 1] IN
  IF ~Choosing THEN Stop("assert G.Choosing")
  ELSE IF N # NullPtr THEN
    \* a tree node that has already been visited
    IF ArityChanged(Choices, N) THEN Stop("exit(-1)")
    ELSE IF ~(Len(SavedChoices) > 0) THEN Stop("assert NumSavedChoices > 0")
    ELSE /\ SavedChoices' = PopSaved(SavedChoices)
         /\ Advance(N, SavedTop(SavedChoices), Choices, op, FALSE)
         /\ UNCHANGED <<Nodes, TotalNodes, PendingPaths>>
  ELSE
    \* off the beaten path: add the node and make a random choice
    IF ~(Len(SavedChoices) = 0) THEN Stop("assert SavedChoices.size() == 0")
    ELSE LET New == Len(Nodes) + 1 IN
         \E Choice \in Rnd :
           /\ Nodes' = SetChild(Append(Nodes, [Parent |-> Current,
                                                Children |-> Resize(Choices)]),
                                Current, LastChoice, New)
           /\ TotalNodes' = TotalNodes + 1
           /\ PendingPaths' = InsertNew(PendingPaths, New, Choices, Level)
           /\ SavedChoices' = SavedChoices
           /\ Advance(New, Choice, Choices, op, TRUE)

\* the largest int
IntMax == 2147483647

\* (int)(Choices - 1): the low 32 bits of hi * 2^31 + n - 1, signed
ToInt(hi, n) ==
  LET h == IF n >= 1 THEN hi ELSE hi - 1
      l == IF n >= 1 THEN n - 1 ELSE IntMax
  IN  IF h % 2 = 0 THEN l ELSE (l - IntMax) - 1

\* std::uniform_int_distribution<int> Dist(0, Choices - 1): a value of
\* 0 .. b for the int b = Choices - 1; for b < 0 the distribution is
\* used outside its precondition and may return any int
UniformInt(hi, n) ==
  IF ToInt(hi, n) >= 0 THEN 0..ToInt(hi, n)
  ELSE {(-IntMax) - 1, -1, 0, IntMax}

Uniform(n) == UniformInt(0, n)
Discrete(w) == {i \in 0..(Len(w) - 1) : w[i + 1] > 0}

BFSChoose ==
  /\ guide = "BFS" /\ pc = "run" /\ GenNext.op = "choose"
  /\ chooseInternal(GenNext.n, Uniform(GenNext.n), "choose")

BFSFlip ==
  /\ guide = "BFS" /\ pc = "run" /\ GenNext.op = "flip"
  /\ chooseInternal(2, Uniform(2), "flip")

\* mutant: the arity is the number of choices of positive weight
BFSChooseWeighted_Support ==
  /\ guide = "BFS" /\ pc = "run" /\ GenNext.op = "weighted"
  /\ chooseInternal(Cardinality(Discrete(GenNext.w)), Discrete(GenNext.w),
                    "weighted")

\* BFSChooser::chooseWeighted
BFSChooseWeighted ==
  /\ guide = "BFS" /\ pc = "run" /\ GenNext.op = "weighted"
  /\ chooseInternal(Len(GenNext.w), Discrete(GenNext.w), "weighted")

\* representative values of a draw over the whole range of long: a
\* negative value, zero and a positive value beyond any arity
FullRange == {-(2^30), 0, 2^30}

\* mutant: the call counts as a level of the traversal
BFSChooseUnimportant_Levelled ==
  /\ guide = "BFS" /\ pc = "run" /\ GenNext.op = "unimportant"
  /\ \E v \in FullRange :
       ret' = [op |-> "unimportant", hi |-> 0, n |-> 0, k |-> v, b |-> FALSE]
  /\ didUnimp' = TRUE
  /\ Level' = Level + 1
  /\ UNCHANGED <<gvars, pc, err, bfsGuide, Current, LastChoice, SavedChoices,
                 sampler, path, plan, run, last, live, taken, drew>>

BFSChooseUnimportant ==
  /\ guide = "BFS" /\ pc = "run" /\ GenNext.op = "unimportant"
  /\ \E v \in FullRange :
       ret' = [op |-> "unimportant", hi |-> 0, n |-> 0, k |-> v, b |-> FALSE]
  /\ didUnimp' = TRUE
  /\ UNCHANGED <<gvars, pc, err, bfsGuide, bfsChooser, sampler, path, plan,
                 run, last, live, taken, drew>>

\* mutant: the node that marks the end of a path is not counted
LeafMarker_Uncounted(total) == total

\* the node allocated at disposal to mark the end of a path: G.TotalNodes++
LeafMarker(total) == total + 1

\* BFSChooser::~BFSChooser, run by the driver when the generator returns
BFSDispose ==
  /\ guide = "BFS" /\ pc = "run" /\ GenNext.op = "return"
  /\ IF ~(SavedChoices = <<>>) THEN Stop("assert SavedChoices.empty()")
     ELSE
       /\ IF Nodes[Current].Children[LastChoice + 1] = NullPtr
          THEN /\ Nodes' = SetChild(Append(Nodes, NewNode), Current, LastChoice,
                                    Len(Nodes) + 1)
               /\ TotalNodes' = LeafMarker(TotalNodes)
          ELSE UNCHANGED <<Nodes, TotalNodes>>
       /\ Choosing' = FALSE
       /\ Current' = NullPtr /\ LastChoice' = 0 /\ Level' = 0
       /\ SavedChoices' = <<>>
       /\ pc' = "idle"
       /\ live' = live - 1
       /\ taken' = taken \cup {path}
       /\ path' = <<>>
       /\ didUnimp' = FALSE
       /\ drew' = <<>>
       /\ target' = NullPtr
       /\ untakenAtPop' = {}
       /\ UNCHANGED <<gvars, err, PendingPaths, MaxSavedLevel, Started,
                      sampler, ret, run, last>>

----------------------------------------------------------------------------
(* DefaultGuide and DefaultChooser: every call is an independent draw      *)

Returned(op, hi, n, k) ==
  /\ ret' = [op |-> op, hi |-> hi, n |-> n, k |-> k, b |-> (k # 0)]
  /\ path' = Append(path, k)
  /\ drew' = Append(drew, TRUE)
  /\ didUnimp' = FALSE

StartRun ==
  /\ pc' = "run"
  /\ path' = <<>>
  /\ didUnimp' = FALSE
  /\ drew' = <<>>
  /\ run' = run + 1
  /\ live' = live + 1
  /\ last' = "chooser"

EndRun ==
  /\ pc' = "idle"
  /\ taken' = taken \cup {path}
  /\ path' = <<>>
  /\ didUnimp' = FALSE
  /\ drew' = <<>>
  /\ live' = live - 1

DefaultMakeChooser ==
  /\ guide = "Default" /\ pc = "idle" /\ run < MaxRuns
  /\ StartRun
  /\ UNCHANGED <<gvars, err, bfsGuide, bfsChooser, sampler, plan, ret, taken>>

DefaultChoose ==
  /\ guide = "Default" /\ pc = "run" /\ GenNext.op = "choose"
  /\ \E k \in UniformInt(GenNext.hi, GenNext.n) :
       Returned("choose", GenNext.hi, GenNext.n, k)
  /\ UNCHANGED <<gvars, pc, err, bfsGuide, bfsChooser, sampler, plan,
                 run, last, live, taken>>

DefaultFlip ==
  /\ guide = "Default" /\ pc = "run" /\ GenNext.op = "flip"
  /\ \E k \in Uniform(2) : Returned("flip", 0, 2, k)
  /\ UNCHANGED <<gvars, pc, err, bfsGuide, bfsChooser, sampler, plan,
                 run, last, live, taken>>

DefaultChooseWeighted ==
  /\ guide = "Default" /\ pc = "run" /\ GenNext.op = "weighted"
  /\ \E k \in Discrete(GenNext.w) : Returned("weighted", 0, Len(GenNext.w), k)
  /\ UNCHANGED <<gvars, pc, err, bfsGuide, bfsChooser, sampler, plan,
                 run, last, live, taken>>

DefaultChooseUnimportant ==
  /\ guide = "Default" /\ pc = "run" /\ GenNext.op = "unimportant"
  /\ \E v \in FullRange :
       ret' = [op |-> "unimportant", hi |-> 0, n |-> 0, k |-> v, b |-> FALSE]
  /\ didUnimp' = TRUE
  /\ UNCHANGED <<gvars, pc, err, bfsGuide, bfsChooser, sampler, path, plan,
                 run, last, live, taken, drew>>

DefaultDispose ==
  /\ guide = "Default" /\ pc = "run" /\ GenNext.op = "return"
  /\ EndRun
  /\ UNCHANGED <<gvars, err, bfsGuide, bfsChooser, sampler, plan,
                 ret, run, last>>

----------------------------------------------------------------------------
(* WeightedSamplerGuide.  The doubles of the source are exact rationals    *)
(* [num, den] here; Indeterminate stands for a double that was never       *)
(* written or that was read from outside a vector.                         *)

RECURSIVE GCD(_, _)
GCD(a, b) == IF b = 0 THEN a ELSE GCD(b, a % b)

Rat(n, d) == LET g == GCD(n, d) IN [num |-> n \div g, den |-> d \div g]
RAdd(x, y) == Rat(x.num * y.den + y.num * x.den, x.den * y.den)
RMul(x, y) == Rat(x.num * y.num, x.den * y.den)
RDiv(x, y) == Rat(x.num * y.den, x.den * y.num)
Indeterminate == [num |-> -1, den |-> 0]

RECURSIVE RSum(_)
RSum(s) == IF s = <<>> THEN Rat(0, 1) ELSE RAdd(Head(s), RSum(Tail(s)))

RECURSIVE Sum(_)
Sum(s) == IF s = <<>> THEN 0 ELSE Head(s) + Sum(Tail(s))

\* discrete_distribution(first, last): the weights divided by their sum
Normalize(ws) == [i \in 1..Len(ws) |-> RDiv(ws[i], RSum(ws))]

\* discrete_distribution(): probabilities() is the one-element vector {1}
DefaultSampler == <<Rat(1, 1)>>

\* the indices a discrete distribution of these probabilities can return
Support(probs) == {i \in 0..(Len(probs) - 1) : probs[i + 1].num > 0}

SRoot == 1

\* Node(): not visited, no children, SizeEstimate not initialized
NewSNode ==
  [visited |-> FALSE, Children |-> <<>>, ChildSampler |-> DefaultSampler,
   SizeEstimate |-> Indeterminate]

\* the loop over weights, then the loop that divides ChildWeights[i] by
\* total for i below ChildSampler.probabilities().size()
ChildWeights(node, weights) ==
  [i \in 1..Len(weights) |->
     IF i <= Len(node.ChildSampler)
     THEN Rat(weights[i], Sum(weights))
     ELSE Rat(weights[i], 1)]

\* Node::visit(n, weights) on the first visit
visit(node, n, weights) ==
  IF node.visited THEN node
  ELSE [node EXCEPT !.Children = Resize(n),
                    !.visited = TRUE,
                    !.SizeEstimate = Rat(n, 1),
                    !.ChildSampler = IF Len(weights) > 0
                                     THEN Normalize(ChildWeights(node, weights))
                                     ELSE @]

\* Node::weight(i)
weight(node, i) ==
  IF Len(node.ChildSampler) > 0
  THEN (IF i < Len(node.ChildSampler) THEN node.ChildSampler[i + 1]
                                      ELSE Indeterminate)
  ELSE Rat(1, Len(node.Children))

\* the weights of the reweighted region
Reweighted(heap, cur) ==
  [i \in 1..Len(cur.Children) |->
     IF cur.Children[i] = NullPtr THEN Rat(0, 1)
     ELSE IF heap[cur.Children[i]].SizeEstimate = Indeterminate
             \/ weight(cur, i - 1) = Indeterminate
          THEN Indeterminate
          ELSE RMul(heap[cur.Children[i]].SizeEstimate, weight(cur, i - 1))]

SamplerMakeChooser ==
  /\ guide = "Sampler" /\ pc = "idle" /\ run < MaxRuns
  /\ Trail' = <<SRoot>>
  /\ StartRun
  /\ UNCHANGED <<gvars, err, bfsGuide, bfsChooser, SNodes, plan, ret, taken>>

\* WeightedSamplerChooser::choose(Choices, Weights)
SamplerChooseInternal(Choices, Weights, op) ==
  LET current == Back(Trail)
      node == SNodes[current]
  IN
  IF ~(Len(Weights) = 0 \/ Len(Weights) = Choices)
    THEN Stop("assert weights.size() == 0 || weights.size() == n")
  ELSE IF node.visited /\ ~(Choices = Len(node.Children))
    THEN Stop("assert n == this->Children.size()")
  ELSE
    LET cur == visit(node, Choices, Weights)
        heap == [SNodes EXCEPT ![current] = cur]
        First == IF Len(cur.ChildSampler) = 0 THEN Uniform(Choices)
                                              ELSE Support(cur.ChildSampler)
        w == Reweighted(heap, cur)
    IN
    \E r0 \in First :
      IF cur.Children[r0 + 1] # NullPtr
         /\ (\E i \in 1..Len(w) : w[i] = Indeterminate)
        THEN Stop("indeterminate value used")
      ELSE IF cur.Children[r0 + 1] # NullPtr /\ Support(w) = {}
        THEN Stop("discrete_distribution of zero weights")
      ELSE
        \E result \in (IF cur.Children[r0 + 1] = NullPtr THEN {r0}
                                                         ELSE Support(w)) :
          LET isNew == cur.Children[result + 1] = NullPtr
              next_node == IF isNew THEN Len(heap) + 1
                                    ELSE cur.Children[result + 1]
          IN
          /\ SNodes' = IF isNew
                       THEN SetChild(Append(heap, NewSNode), current, result,
                                     next_node)
                       ELSE heap
          /\ Trail' = Append(Trail, next_node)
          /\ Returned(op, 0, Choices, result)
          /\ UNCHANGED <<gvars, pc, err, bfsGuide, bfsChooser, plan,
                         run, last, live, taken>>

SamplerChoose ==
  /\ guide = "Sampler" /\ pc = "run" /\ GenNext.op = "choose"
  /\ SamplerChooseInternal(GenNext.n, <<>>, "choose")

SamplerFlip ==
  /\ guide = "Sampler" /\ pc = "run" /\ GenNext.op = "flip"
  /\ SamplerChooseInternal(2, <<>>, "flip")

SamplerChooseWeighted ==
  /\ guide = "Sampler" /\ pc = "run" /\ GenNext.op = "weighted"
  /\ SamplerChooseInternal(Len(GenNext.w), GenNext.w, "weighted")

SamplerChooseUnimportant ==
  /\ guide = "Sampler" /\ pc = "run" /\ GenNext.op = "unimportant"
  /\ \E v \in FullRange :
       ret' = [op |-> "unimportant", hi |-> 0, n |-> 0, k |-> v, b |-> FALSE]
  /\ didUnimp' = TRUE
  /\ UNCHANGED <<gvars, pc, err, bfsGuide, bfsChooser, sampler, path, plan,
                 run, last, live, taken, drew>>

\* the total prior probability of the children of node that exist
Occupied(node) ==
  LET I == {i \in 1..Len(node.Children) : node.Children[i] # NullPtr}
  IN  IF \E i \in I : weight(node, i - 1) = Indeterminate
      THEN Indeterminate
      ELSE RSum([i \in 1..Len(node.Children) |->
                   IF i \in I THEN weight(node, i - 1) ELSE Rat(0, 1)])

\* mutant: occupied counts the children that exist
Estimate_Counted(node) ==
  LET I == {i \in 1..Len(node.Children) : node.Children[i] # NullPtr}
  IN  IF I = {} THEN [num |-> 1, den |-> 0]
      ELSE Rat(Len(node.Children), Cardinality(I))

\* last->SizeEstimate = last->Children.size() / occupied
Estimate(node) ==
  LET occupied == Occupied(node)
  IN  IF occupied = Indeterminate THEN Indeterminate
      ELSE IF occupied.num = 0 THEN [num |-> 1, den |-> 0]
      ELSE RDiv(Rat(Len(node.Children), 1), occupied)

\* the while loop of the destructor over the rest of the trail
RECURSIVE Collapse(_, _)
Collapse(heap, trail) ==
  IF Len(trail) = 0 THEN heap
  ELSE Collapse([heap EXCEPT ![Back(trail)].SizeEstimate =
                                Estimate(heap[Back(trail)])],
                Front(trail))

\* mutant: the deepest node of the trail is given no leaves
LeafEstimate_Zero == Rat(0, 1)

\* this->Trail.back()->SizeEstimate = 1.0
LeafEstimate == Rat(1, 1)

\* WeightedSamplerChooser::~WeightedSamplerChooser
SamplerDispose ==
  /\ guide = "Sampler" /\ pc = "run" /\ GenNext.op = "return"
  /\ SNodes' = Collapse([SNodes EXCEPT ![Back(Trail)].SizeEstimate = LeafEstimate],
                        Front(Trail))
  /\ Trail' = <<>>
  /\ EndRun
  /\ UNCHANGED <<gvars, err, bfsGuide, bfsChooser, plan, ret, run, last>>

----------------------------------------------------------------------------

NoRet == [op |-> "none", hi |-> 0, n |-> 0, k |-> 0, b |-> FALSE]

Init ==
  /\ guide \in {"BFS", "Default", "Sampler"}
  /\ gen \in Generators
  \* a tree node of 2^31 + 1 child slots is not modelled
  /\ gen = "huge" => guide = "Default"
  /\ pc = "idle"
  /\ err = "none"
  /\ BFSGuideInit
  /\ Current = NullPtr /\ LastChoice = 0 /\ Level = 0 /\ SavedChoices = <<>>
  /\ SNodes = <<NewSNode>>
  /\ Trail = <<>>
  /\ path = <<>> /\ didUnimp = FALSE
  /\ ret = NoRet
  /\ run = 0
  /\ last = "none"
  /\ live = 0
  /\ taken = {}
  /\ target = NullPtr
  /\ untakenAtPop = {}
  /\ drew = <<>>

Next ==
  \/ BFSMakeChooser
  \/ BFSChoose
  \/ BFSFlip
  \/ BFSChooseWeighted
  \/ BFSChooseUnimportant
  \/ BFSDispose
  \/ DefaultMakeChooser
  \/ DefaultChoose
  \/ DefaultFlip
  \/ DefaultChooseWeighted
  \/ DefaultChooseUnimportant
  \/ DefaultDispose
  \/ SamplerMakeChooser
  \/ SamplerChoose
  \/ SamplerFlip
  \/ SamplerChooseWeighted
  \/ SamplerChooseUnimportant
  \/ SamplerDispose

Spec == Init /\ [][Next]_vars

\* the driver loop of main and the generator it runs keep going: a call
\* that can be made is made, until the guide reports exhaustion or the
\* program stops
SpecLive ==
  /\ Spec
  /\ WF_vars(BFSMakeChooser)
  /\ WF_vars(BFSChoose) /\ WF_vars(BFSFlip) /\ WF_vars(BFSChooseWeighted)
  /\ WF_vars(BFSChooseUnimportant)
  /\ WF_vars(BFSDispose)

----------------------------------------------------------------------------
(* The decision tree of a generator, read off the generator itself         *)

RECURSIVE LeavesFrom(_, _)
LeavesFrom(g, p) ==
  IF Call(g, 1, p).op = "return" THEN {p}
  ELSE UNION {LeavesFrom(g, Append(p, i)) : i \in 0..(Call(g, 1, p).n - 1)}

Leaves(g) == LeavesFrom(g, <<>>)

Prefixes(p) == {SubSeq(p, 1, k) : k \in 0..Len(p)}

\* number of traversals that have completed
Completed == run - live

\* C1: BFS exhaustiveness.  For a deterministic generator with L leaves the
\* BFS guide hands out exactly L choosers before the first absent result,
\* and by then the completed traversals have taken every root-to-leaf path
\* of the decision tree, whatever the random draws were: the queue is not
\* empty between traversals while fewer than L choosers were handed out,
\* and when makeChooser returns absent, run = L and taken = Leaves.
C1_Exhaustive ==
  (guide = "BFS" /\ Deterministic(gen)) =>
     /\ run <= Cardinality(Leaves(gen))
     /\ taken \subseteq Leaves(gen)
     /\ Cardinality(taken) = Completed
     /\ (pc = "idle" /\ Started /\ run < Cardinality(Leaves(gen)))
           => PendingPaths # <<>>
     /\ last = "absent" =>
           /\ run = Cardinality(Leaves(gen))
           /\ taken = Leaves(gen)

C1_Witness ==
  /\ guide = "BFS" /\ gen = "test2" /\ last = "absent"
  /\ run = 2^TreeDepth /\ Cardinality(taken) = 2^TreeDepth

\* C2: Range.  For every guide and in every traversal, choose(n) with
\* n > 0 returns k with 0 <= k < n, chooseWeighted(w) returns k with
\* 0 <= k < |w|, and flip returns choose(2) read as false/true.
C2_Range ==
  /\ ret.op \in {"choose", "flip", "weighted"} =>
        (0 <= ret.k /\ (ret.hi > 0 \/ ret.k < ret.n))
  /\ ret.op = "flip" => (ret.n = 2 /\ ret.b = (ret.k = 1))

\* the same for the arities that an int holds
C2_RangeOfInt ==
  /\ (ret.op \in {"choose", "flip", "weighted"} /\ ret.hi = 0) =>
        (0 <= ret.k /\ ret.k < ret.n)
  /\ ret.op = "flip" => (ret.n = 2 /\ ret.b = (ret.k = 1))
  /\ (pc = "run" /\ path # <<>> /\ ret.op # "unimportant") =>
        /\ ret.op = Call(gen, run, Front(path)).op
        /\ ret.n = Call(gen, run, Front(path)).n
        /\ ret.k = Back(path)

\* the node a BFS choose call arrives at (NullPtr: not yet in the tree)
ArrivedAt == Nodes[Current].Children[LastChoice + 1]

BFSChooseStep == BFSChoose \/ BFSFlip \/ BFSChooseWeighted

ArityChangePending ==
  /\ guide = "BFS" /\ pc = "run"
  /\ GenNext.op \in {"choose", "flip", "weighted"}
  /\ ArrivedAt # NullPtr
  /\ GenNext.n # Len(Nodes[ArrivedAt].Children)

\* C3: BFS arity-change detection.  A choose(n) or chooseWeighted(w) that
\* arrives at an existing node whose number of child slots differs from the
\* arity presented ends in the fatal exit: no choice is returned, no saved
\* choice is popped, and the tree, the queue and TotalNodes are unchanged.
C3_ArityChange ==
  [][(ArityChangePending /\ BFSChooseStep) =>
       /\ pc' = "stopped" /\ err' = "exit(-1)"
       /\ UNCHANGED <<Nodes, PendingPaths, TotalNodes, SavedChoices,
                      ret, path, Current, LastChoice, Level>>]_vars

\* the fatal exit was taken by a chooseWeighted call
C3_Witness ==
  /\ guide = "BFS" /\ pc = "stopped" /\ err = "exit(-1)"
  /\ GenNext.op = "weighted" /\ ArrivedAt # NullPtr
  /\ Len(GenNext.w) # Len(Nodes[ArrivedAt].Children)

\* C4: BFS single live chooser.  Choosing is true exactly from a successful
\* makeChooser until the disposal of that chooser; makeChooser while
\* Choosing is a usage error that yields no second chooser; a makeChooser
\* that returns absent leaves Choosing false.
C4_SingleLive ==
  /\ [](guide = "BFS" => (live \in {0, 1} /\ (Choosing <=> live = 1)))
  /\ [][(guide = "BFS" /\ Choosing' # Choosing) =>
          IF Choosing' THEN BFSMakeChooser /\ pc' = "run" /\ run' = run + 1
                       ELSE BFSDispose]_vars
  /\ [][(BFSMakeChooser /\ Choosing) =>
          /\ pc' = "stopped" /\ err' = "assert !Choosing"
          /\ live' = live /\ run' = run /\ UNCHANGED bfsChooser]_vars
  /\ [][(BFSMakeChooser /\ pc' = "idle") =>
          (last' = "absent" /\ ~Choosing' /\ live' = 0)]_vars

C4_Witness ==
  /\ guide = "BFS" /\ pc = "stopped" /\ err = "assert !Choosing"
  /\ live = 1 /\ Choosing /\ last = "planned"

\* C5: BFS exhaustion signal.  The first makeChooser returns a bootstrap
\* chooser without saved choices; every later makeChooser returns absent
\* exactly when the queue is empty at the call; once absent was returned
\* every makeChooser returns absent and leaves the tree, the queue,
\* TotalNodes and MaxSavedLevel unchanged.
C5_Exhaustion ==
  /\ [][(BFSMakeChooser /\ ~Started) =>
          /\ last' = "bootstrap" /\ pc' = "run"
          /\ SavedChoices' = <<>> /\ target' = NullPtr]_vars
  /\ [][(BFSMakeChooser /\ Started /\ ~Choosing) =>
          /\ (pc' = "idle") <=> (PendingPaths = <<>>)
          /\ (last' = "absent") <=> (PendingPaths = <<>>)]_vars
  /\ [][(guide = "BFS" /\ last = "absent") =>
          /\ last' = "absent" /\ pc' = "idle"
          /\ UNCHANGED <<Nodes, PendingPaths, TotalNodes, MaxSavedLevel>>]_vars
  /\ [](guide = "BFS" /\ last = "absent" =>
          (pc = "idle" /\ PendingPaths = <<>> /\ ENABLED BFSMakeChooser))

C5_Witness ==
  /\ guide = "BFS" /\ gen = "mixed" /\ last = "absent" /\ pc = "idle"
  /\ run = Cardinality(Leaves("mixed"))

\* number of choose calls that precede the call made at node n
RECURSIVE Depth(_)
Depth(n) == IF Nodes[n].Parent = Root THEN 0 ELSE 1 + Depth(Nodes[n].Parent)

RECURSIVE Ancestor(_, _)
Ancestor(n, k) == IF k = 0 THEN n ELSE Ancestor(Nodes[n].Parent, k - 1)

\* the node reached from n by the choices p, following the child slots
RECURSIVE Follow(_, _)
Follow(n, p) ==
  IF p = <<>> \/ n = NullPtr THEN n
  ELSE Follow(Nodes[n].Children[Head(p) + 1], Tail(p))

NodeAt(p) == Follow(Nodes[Root].Children[1], p)

\* C6: BFS replay fidelity.  In a planned traversal whose popped target has
\* depth d, the first d choices returned lead from the root down the child
\* slots to the target, the choice returned at the target is an index whose
\* slot was empty when the target was popped, and none of these d + 1
\* calls used a random draw.
C6_Replay ==
  (guide = "BFS" /\ target # NullPtr) =>
    LET d == Depth(target)
        k == IF Len(path) < d THEN Len(path) ELSE d
    IN  /\ NodeAt(SubSeq(path, 1, k)) = Ancestor(target, d - k)
        /\ Len(path) >= d + 1 => path[d + 1] \in untakenAtPop
        /\ \A j \in 1..Len(path) : j <= d + 1 => ~drew[j]
        /\ Len(path) <= d + 1 => Len(SavedChoices) = d + 1 - Len(path)

C6_Witness ==
  /\ guide = "BFS" /\ gen = "test2" /\ target # NullPtr /\ pc = "run"
  /\ Depth(target) = 2 /\ Len(path) = 3 /\ drew = <<FALSE, FALSE, FALSE>>

NodesOn(paths) == Cardinality(UNION {Prefixes(p) : p \in paths})

C8_BinaryPrefixes ==
  (guide = "BFS" /\ gen = "test2") =>
    \A k \in 0..TreeDepth :
      Completed >= 2^(k + 1) - 1 =>
        \A j \in 0..k : \A q \in [1..j -> {0, 1}] :
          \E p \in taken : Len(p) >= j /\ SubSeq(p, 1, j) = q

C8_Witness ==
  /\ guide = "BFS" /\ gen = "test2" /\ pc = "idle"
  /\ Completed = 2^TreeDepth - 1

\* C9: BFS breadth-first order.  Every queue entry is saved at the depth of
\* its node; once makeChooser has popped a node saved at level L, the queue
\* holds no entry of a level below L and every node of depth below L has
\* all of its child slots filled.
C9_BreadthFirst ==
  guide = "BFS" =>
    /\ \A i \in 1..Len(PendingPaths) :
         /\ PendingPaths[i].level = Depth(PendingPaths[i].node)
         /\ PendingPaths[i].level >= MaxSavedLevel
    /\ \A n \in 2..Len(Nodes) :
         (Nodes[n].Parent # NullPtr /\ Depth(n) < MaxSavedLevel)
            => UntakenSlots(Nodes[n].Children) = {}

C9_Witness ==
  /\ guide = "BFS" /\ gen = "mixed" /\ pc = "run" /\ last = "planned"
  /\ path = <<>> /\ target # NullPtr /\ MaxSavedLevel = 2
  /\ Cardinality(untakenAtPop) = 2

\* C10: BFS monotone levels.  The levels of the nodes that makeChooser pops
\* never decrease: MaxSavedLevel takes the level of each popped node and
\* never goes down, and for a deterministic generator the assertion
\* SavedLevel >= MaxSavedLevel does not fail.
C10_Monotone ==
  /\ [][MaxSavedLevel' >= MaxSavedLevel]_vars
  /\ [][(BFSMakeChooser /\ pc' = "run" /\ last' = "planned") =>
          /\ MaxSavedLevel' = PendingPaths[1].level
          /\ target' = PendingPaths[1].node
          /\ PendingPaths[1].level >= MaxSavedLevel]_vars
  /\ [](Deterministic(gen) => err # "assert SavedLevel >= MaxSavedLevel")

\* the node of three choices is popped a second time, after the traversal
\* in between has put new nodes on the queue
C10_Witness ==
  /\ guide = "BFS" /\ gen = "weighted" /\ last = "planned" /\ pc = "run"
  /\ MaxSavedLevel = 1 /\ Len(Nodes[target].Children) = 3
  /\ Cardinality(untakenAtPop) = 1

\* the nodes reached from n through one or more child slots
RECURSIVE Descendants(_)
Descendants(n) ==
  UNION {{c} \cup Descendants(c) :
           c \in {Nodes[n].Children[i] : i \in 1..Len(Nodes[n].Children)}
                   \ {NullPtr}}

\* number of child slots of the tree that hold a node
FilledSlots ==
  Sum([n \in 1..Len(Nodes) |->
         Cardinality({i \in 1..Len(Nodes[n].Children) :
                        Nodes[n].Children[i] # NullPtr})])

\* C11: BFS node accounting.  Whenever no chooser is live, TotalNodes is
\* the number of distinct nodes reached from the root through child slots
\* (the root itself, which the constructor allocates and which stands for
\* no call, is not counted); the nodes allocated at disposal to mark the
\* end of a path are counted like the nodes allocated by choose, every
\* node allocated is reachable, and no node fills two slots.
C11_NodeAccounting ==
  (guide = "BFS" /\ ~Choosing) =>
     /\ TotalNodes = Cardinality(Descendants(Root))
     /\ Descendants(Root) = 2..Len(Nodes)
     /\ FilledSlots = TotalNodes

\* two traversals of test1 are complete; each ended in a node allocated at
\* disposal
C11_Witness ==
  /\ guide = "BFS" /\ gen = "test1" /\ pc = "idle" /\ Completed = 2
  /\ Cardinality({n \in 2..Len(Nodes) : Nodes[n].Children = <<>>}) = 2
  /\ TotalNodes = Cardinality(Descendants(Root))

\* a double that was written, is finite and is at least 1
AtLeastOne(x) == x # Indeterminate /\ x.den > 0 /\ x.num >= x.den

\* C12: Sampler trail integrity.  The disposal of a sampler chooser, after
\* any number of choose calls (zero included), leaves the trail empty and
\* every node that was on the trail with SizeEstimate >= 1; so between
\* traversals the trail is empty and every node of the tree, each of which
\* was on some trail, has SizeEstimate >= 1.
C12_TrailIntegrity ==
  /\ [][SamplerDispose =>
          /\ Trail # <<>>
          /\ Trail' = <<>>
          /\ \A i \in 1..Len(Trail) :
                AtLeastOne(SNodes'[Trail[i]].SizeEstimate)]_vars
  /\ []((guide = "Sampler" /\ pc = "idle") =>
          /\ Trail = <<>>
          /\ run >= 1 => \A n \in 1..Len(SNodes) :
                            AtLeastOne(SNodes[n].SizeEstimate))

\* two traversals of the weighted generator are complete and the root,
\* one of whose two children exists, is estimated above its arity
C12_Witness ==
  /\ guide = "Sampler" /\ gen = "weighted" /\ pc = "idle" /\ Completed = 2
  /\ Trail = <<>> /\ Len(SNodes) >= 4
  /\ SNodes[SRoot].SizeEstimate.num > 2 * SNodes[SRoot].SizeEstimate.den

OnQueue(n) == \E i \in 1..Len(PendingPaths) : PendingPaths[i].node = n

\* the nodes of the tree other than the root object of the constructor
TreeNodes == 2..Len(Nodes)

\* C13 as stated: BFS frontier membership.  In every reachable state a node
\* of the tree is on the queue if and only if it has at least one empty
\* child slot and is not the target node of the live chooser.
C13_Frontier ==
  guide = "BFS" =>
    \A n \in TreeNodes :
      OnQueue(n) <=> /\ UntakenSlots(Nodes[n].Children) # {}
                     /\ ~(Choosing /\ n = target)

\* the child slot of n that the live chooser is committed to fill: the
\* slot saved for the target until the replay has reached it, and the slot
\* of the last choice at the node the chooser stands on
Committed(n) ==
  IF ~Choosing THEN {}
  ELSE IF n = target /\ SavedChoices # <<>> THEN {SavedChoices[1]}
  ELSE IF n = Current THEN {LastChoice}
  ELSE {}

\* C13 amended: a node is on the queue if and only if it has an empty child
\* slot other than the slot the live chooser is committed to fill; hence
\* whenever no chooser is live a node is on the queue if and only if it
\* has an empty child slot.  A target popped with more than one empty slot
\* is on the queue while it is being replayed, and a new node of one
\* choice is never queued although its slot is empty until the next call.
C13_FrontierCommitted ==
  guide = "BFS" =>
    /\ \A n \in TreeNodes :
         OnQueue(n) <=> (UntakenSlots(Nodes[n].Children) \ Committed(n)) # {}
    /\ ~Choosing =>
         \A n \in TreeNodes :
           OnQueue(n) <=> UntakenSlots(Nodes[n].Children) # {}

\* the target was popped with two empty slots and is on the queue while
\* its replay has not started
C13_Witness ==
  /\ guide = "BFS" /\ gen = "mixed" /\ pc = "run" /\ target # NullPtr
  /\ OnQueue(target) /\ Cardinality(untakenAtPop) = 2
  /\ SavedChoices # <<>> /\ Committed(target) = {2}

\* C14: BFS queue entries are never stale.  In every reachable state a node
\* whose child slots are all filled is not on the queue and no node is on
\* the queue more than once; every node popped by makeChooser had an empty
\* child slot when it was popped, and for a deterministic generator the
\* assertion NumUntaken > 0 does not fail.
C14_NeverStale ==
  guide = "BFS" =>
    /\ \A n \in 1..Len(Nodes) :
         UntakenSlots(Nodes[n].Children) = {} => ~OnQueue(n)
    /\ \A i, j \in 1..Len(PendingPaths) :
         PendingPaths[i].node = PendingPaths[j].node => i = j
    /\ target # NullPtr => untakenAtPop # {}
    /\ Deterministic(gen) => err # "assert NumUntaken > 0"

\* the popped node had one empty slot left; the replay has filled it and
\* the node, now full, is off the queue while other nodes are still queued
C14_Witness ==
  /\ guide = "BFS" /\ gen = "test2" /\ pc = "run" /\ target # NullPtr
  /\ Cardinality(untakenAtPop) = 1
  /\ UntakenSlots(Nodes[target].Children) = {}
  /\ ~OnQueue(target) /\ PendingPaths # <<>>

\* makeChooser pops a node that has more than one empty child slot
PopsWithTie ==
  /\ BFSMakeChooser /\ pc' = "run" /\ last' = "planned"
  /\ Cardinality(untakenAtPop') > 1

\* the popped node is back on the queue, once, at the level it was saved at
ReinsertedAtLevel ==
  /\ Len(PendingPaths') = Len(PendingPaths)
  /\ Cardinality({i \in 1..Len(PendingPaths') :
                     PendingPaths'[i].node = PendingPaths[1].node}) = 1
  /\ \E i \in 1..Len(PendingPaths') : PendingPaths'[i] = PendingPaths[1]

\* C15 as stated: BFS tie-break at the target node.  When the node popped
\* by makeChooser has more than one empty child slot, the index saved as
\* the choice to make at that node is the lowest index whose slot is
\* empty, and the node is re-inserted into the queue at the same level.
C15_TieBreakLowest ==
  [][PopsWithTie =>
       /\ SavedChoices'[1] = Min(untakenAtPop')
       /\ ReinsertedAtLevel]_vars

\* C15 amended: the index saved is the highest index whose slot is empty
\* (the loop over the slots does not stop at the first empty one), the
\* node is re-inserted at the same level, and the replay returns that
\* index at the target.
C15_TieBreakHighest ==
  /\ [][PopsWithTie =>
          /\ target' = PendingPaths[1].node
          /\ untakenAtPop' = UntakenSlots(Nodes[target'].Children)
          /\ SavedChoices'[1] = Max(untakenAtPop')
          /\ ReinsertedAtLevel]_vars
  /\ []((guide = "BFS" /\ target # NullPtr /\ Len(path) > Depth(target))
          => path[Depth(target) + 1] = Max(untakenAtPop))

\* the node of three choices was popped with two empty slots; the higher
\* one is saved and the node is back on the queue
C15_Witness ==
  /\ guide = "BFS" /\ gen = "weighted" /\ pc = "run" /\ last = "planned"
  /\ path = <<>> /\ target # NullPtr /\ Len(Nodes[target].Children) = 3
  /\ Cardinality(untakenAtPop) = 2
  /\ SavedChoices[1] = Max(untakenAtPop)
  /\ SavedChoices[1] # Min(untakenAtPop)
  /\ OnQueue(target)

\* C16: BFS saved choices end exactly at the frontier.  For a deterministic
\* generator, at every choose call of every traversal the node the call
\* arrives at exists if and only if SavedChoices is not empty; so none of
\* the assertions NumSavedChoices > 0, SavedChoices.size() == 0 and
\* SavedChoices.empty() fails, and SavedChoices is empty when the chooser
\* is disposed of.
C16_SavedToFrontier ==
  (guide = "BFS" /\ Deterministic(gen)) =>
    /\ pc = "run" => ((ArrivedAt # NullPtr) <=> (SavedChoices # <<>>))
    /\ (pc = "run" /\ GenNext.op = "return") => SavedChoices = <<>>
    /\ err \notin {"assert NumSavedChoices > 0",
                    "assert SavedChoices.size() == 0",
                    "assert SavedChoices.empty()"}

\* a replay in progress: two saved choices were used, one is left, and the
\* next call arrives at a node that exists
C16_Witness ==
  /\ guide = "BFS" /\ gen = "test2" /\ pc = "run" /\ target # NullPtr
  /\ Len(path) = 2 /\ Len(SavedChoices) = 1 /\ ArrivedAt = target
  /\ GenNext.op = "choose"

\* the child slots of a sampler node that hold a node
Held(node) == {i \in 0..(Len(node.Children) - 1) : node.Children[i + 1] # NullPtr}

\* number of child slots over the sum of weight(i) for the slots held
SlotsOverOccupied(node) ==
  RDiv(Rat(Len(node.Children), 1),
       RSum([i \in 1..Len(node.Children) |->
               IF (i - 1) \in Held(node) THEN weight(node, i - 1)
                                         ELSE Rat(0, 1)]))

\* C17: Sampler trail collapse.  At the disposal of a sampler chooser the
\* deepest trail node gets SizeEstimate = 1 and every other trail node gets
\* SizeEstimate = (number of its child slots) / occupied, occupied being
\* the sum of weight(i) over the child slots i that hold a node; the value
\* is a function of the node's slots and prior weights alone, not of the
\* children's estimates; nothing but SizeEstimate changes on the trail and
\* no node off the trail is modified.
C17_Collapse ==
  [][SamplerDispose =>
       /\ Len(SNodes') = Len(SNodes)
       /\ SNodes'[Back(Trail)] =
             [SNodes[Back(Trail)] EXCEPT !.SizeEstimate = Rat(1, 1)]
       /\ \A j \in 1..(Len(Trail) - 1) :
             /\ Held(SNodes[Trail[j]]) # {}
             /\ \A i \in Held(SNodes[Trail[j]]) :
                   weight(SNodes[Trail[j]], i) # Indeterminate
             /\ SNodes'[Trail[j]] =
                   [SNodes[Trail[j]] EXCEPT
                      !.SizeEstimate = SlotsOverOccupied(SNodes[Trail[j]])]
       /\ \A n \in 1..Len(SNodes) :
             (\A j \in 1..Len(Trail) : Trail[j] # n) => SNodes'[n] = SNodes[n]
      ]_vars

\* after the second traversal of the weighted generator: the root holds
\* both children, so its estimate is its arity, and a node below it that
\* holds one child is estimated above its own arity
C17_Witness ==
  /\ guide = "Sampler" /\ gen = "weighted" /\ pc = "idle" /\ Completed = 2
  /\ Held(SNodes[SRoot]) = {0, 1}
  /\ SNodes[SRoot].SizeEstimate = Rat(2, 1)
  /\ \E n \in 2..Len(SNodes) :
        /\ SNodes[n].visited /\ Cardinality(Held(SNodes[n])) = 1
        /\ SNodes[n].SizeEstimate.num > Len(SNodes[n].Children) * SNodes[n].SizeEstimate.den

\* the nodes of the sampler tree below n, each with the choices that lead
\* to it from the root
RECURSIVE SPaths(_, _)
SPaths(n, p) ==
  {<<n, p>>} \cup
  UNION {SPaths(SNodes[n].Children[i + 1], Append(p, i)) : i \in Held(SNodes[n])}

\* the prior probability of child i at a node first visited by the call c
Prior(c, i) ==
  IF c.op = "weighted" THEN Rat(c.w[i + 1], Sum(c.w)) ELSE Rat(1, c.n)

\* C18: Sampler prior weights.  For every visited sampler node with n child
\* slots and every i in [0, n), weight(i) is w[i] / (w[0] + ... + w[n-1])
\* when the node was first visited with weights w, and 1/n when it was
\* first visited without weights; the priors over the n children sum to 1.
C18_Priors ==
  (guide = "Sampler" /\ Deterministic(gen)) =>
    \A e \in SPaths(SRoot, <<>>) :
      LET node == SNodes[e[1]]
          c == Call(gen, 1, e[2])
      IN  node.visited =>
            /\ Len(node.Children) = c.n
            /\ \A i \in 0..(c.n - 1) : weight(node, i) = Prior(c, i)
            /\ RSum([i \in 1..c.n |-> weight(node, i - 1)]) = Rat(1, 1)

SamplerChooseStep == SamplerChoose \/ SamplerFlip

\* the next call is a choose(n) or flip at a sampler node none of whose
\* children has been visited
AtFreshUnweighted ==
  /\ guide = "Sampler" /\ pc = "run" /\ GenNext.op \in {"choose", "flip"}
  /\ Held(SNodes[Back(Trail)]) = {}

\* the call returned an index whose slot was empty: it allocated the child
\* there and put it on the trail
C19_EmptySlotKept ==
  [][(SamplerChooseStep /\ pc' = "run"
        /\ ret'.k \notin Held(SNodes[Back(Trail)])) =>
       /\ Len(SNodes') = Len(SNodes) + 1
       /\ SNodes'[Back(Trail)].Children[ret'.k + 1] = Len(SNodes')
       /\ Trail' = Append(Trail, Len(SNodes'))
       /\ SNodes'[Len(SNodes')] = NewSNode]_vars

\* C19: Sampler initial sample without weights.  At a sampler node first
\* visited through choose(n) the initial sample is uniform on [0, n): while
\* none of the node's children has been visited every k in [0, n) is a
\* possible return value of choose(n); and an initial sample that lands on
\* an empty child slot is returned unchanged, a new child being allocated
\* there.
C19_InitialSample ==
  /\ [](AtFreshUnweighted =>
          \A k \in 0..(GenNext.n - 1) :
            ENABLED (SamplerChooseStep /\ pc' = "run" /\ ret'.k = k))
  /\ C19_EmptySlotKept

\* what a call of arity n that returns does to the tree, the queue and the
\* chooser: at an existing node the next saved choice is replayed and
\* nothing grows; at an empty slot a node of n slots is linked in, counted,
\* and queued at the current level if n > 1
GrowsAs(n) ==
  /\ Level' = Level + 1
  /\ LastChoice' \in 0..(n - 1)
  /\ IF ArrivedAt # NullPtr
     THEN /\ UNCHANGED <<Nodes, TotalNodes, PendingPaths>>
          /\ Current' = ArrivedAt
          /\ LastChoice' = Back(SavedChoices)
          /\ SavedChoices' = Front(SavedChoices)
          /\ ~Back(drew')
     ELSE /\ Len(Nodes') = Len(Nodes) + 1
          /\ Nodes'[Len(Nodes')] = [Parent |-> Current, Children |-> Resize(n)]
          /\ Nodes'[Current].Children[LastChoice + 1] = Len(Nodes')
          /\ TotalNodes' = TotalNodes + 1
          /\ PendingPaths' = IF n > 1
                             THEN PriQInsert(PendingPaths, Len(Nodes'), Level)
                             ELSE PendingPaths
          /\ Current' = Len(Nodes')
          /\ UNCHANGED SavedChoices
          /\ Back(drew')

\* the index returned at position j of this run has weight 0 at its call
ZeroWeightAt(j) ==
  LET c == Call(gen, run, SubSeq(path, 1, j - 1))
  IN  c.op = "weighted" /\ c.w[path[j] + 1] = 0

\* C20: BFS tree topology depends on arity only.  chooseWeighted(w) grows
\* the tree and the queue exactly as choose(|w|) does; the weights are used
\* only for the random draw at the first visit of the node, so an index of
\* weight 0 is returned by replay only; and the planned traversals
\* eventually return every index in [0, |w|) at the node, an index of
\* weight 0 included: the traversals end with every leaf of the tree of
\* arities taken.
C20_ArityOnly ==
  /\ [][(BFSChooseWeighted /\ pc' = "run") =>
          /\ GrowsAs(Len(GenNext.w))
          /\ Back(drew') => LastChoice' \in Discrete(GenNext.w)]_vars
  /\ [][(BFSChoose /\ pc' = "run") => GrowsAs(GenNext.n)]_vars
  /\ []((guide = "BFS" /\ Deterministic(gen)) =>
          \A j \in 1..Len(path) : ZeroWeightAt(j) => ~drew[j])
  /\ (guide = "BFS" /\ gen \in {"mixed", "weighted"})
        ~> (pc = "stopped" \/ (last = "absent" /\ taken = Leaves(gen)))

\* the index 1 of weight 0 was returned at the node of weights <<2, 0>>
\* by a planned traversal
C20_Witness ==
  /\ guide = "BFS" /\ gen = "mixed" /\ pc = "run" /\ path = <<2, 1>>
  /\ drew = <<FALSE, FALSE>> /\ target = NodeAt(<<2>>)
  /\ Len(Nodes[target].Children) = 2

====
